---- MODULE Spec2Model ----
(***************************************************************************)
(* Playback timeline engine of the music_slower player.                    *)
(*                                                                         *)
(* The repository holds three near-duplicate variants of the player:       *)
(*   variant 1  src/unnamed/part_001 lines 1-489   (seek gesture, YouTube) *)
(*   variant 2  src/unnamed/part_001 lines 491-897 (seek restarts playback)*)
(*   variant 3  src/unnamed/part_002               (scrub on the canvas)   *)
(* Each is a closure with its own state; `variant` says which one runs.    *)
(*                                                                         *)
(* Numbers.  JavaScript numbers are modelled in exact fixed point.         *)
(* Device time and buffer positions count sixty-fourths of a second (Unit  *)
(* to the second); the clock readings at which events happen, the seek     *)
(* targets and the durations are whole seconds.  A playback rate is an     *)
(* integer number of halves (1 = 0.5x, 2 = 1.0x, 3 = 1.5x, 4 = 2.0x), so   *)
(* elapsed * playbackRate is elapsed * rate / 2.  mulRate is that product  *)
(* and nothing else: it has a value only when the product is a whole       *)
(* number of sixty-fourths, and it never rounds.  Within the bounds every  *)
(* product the handlers form has one: each multiplication by 1.5 uses up   *)
(* one binary place and makes the position half as large again, and        *)
(* positions stop at MaxPos seconds (OnGrid below).                        *)
(*                                                                         *)
(* Specifications.                                                         *)
(*   Spec          the timeline and the loads, every interleaving          *)
(*   SpecFair      Spec, with pending animation frames eventually run      *)
(*   SpecMix       the loads and the reverb knob                           *)
(*   SpecRates     one playing period with rate changes                    *)
(*   SpecPlayout   one playing period left alone, clock and frames fair    *)
(*   SpecWaveform  the waveform drawn from the channel data                *)
(*   SpecYoutube   the YouTube load and the server route                   *)
(*   SpecScenario  the scripted scenario                                   *)
(***************************************************************************)
EXTENDS Integers, Sequences, FiniteSets, TLC

VARIABLES
    variant,          \* which of the three closures this is
    audioCtx,         \* TRUE once initAudio() has created the AudioContext
    now,              \* audioCtx.currentTime
    audioBuffer,      \* the decoded buffer, NoBuffer for null
    sourceNode,       \* the held AudioBufferSourceNode, NoNode for null
    liveSources,      \* source nodes started and not yet stopped
    mix,              \* dryNode / wetNode and their gain values
    isPlaying,
    startTime,
    pausedAt,
    playbackRate,
    reverbAmount,
    wasPlaying,
    controlsDisabled, \* what disableControls() last set
    loads,            \* the asynchronous loads in flight
    loadGen,          \* number of loads started so far
    pendingTicks,     \* updateProgress callbacks requested and not yet run
    sliderValue,      \* seekSlider.value
    waveform,         \* channel data, canvas.width and the columns drawn
    requests,         \* the GET /api/process-youtube requests, by load number
    step              \* position of the scripted scenario (0 when none runs)

vars == <<variant, audioCtx, now, audioBuffer, sourceNode, liveSources, mix,
          isPlaying, startTime, pausedAt, playbackRate, reverbAmount,
          wasPlaying, controlsDisabled, loads, loadGen, pendingTicks,
          sliderValue, waveform, requests, step>>

(***************************************************************************)
(* Bounds of the model.                                                    *)
(***************************************************************************)
MaxTicks == 2
MaxDuration == 4
MaxLoads == 2
MaxPending == 2
MaxLive == 2
MaxPos == 8
MaxSamples == 4
MaxWidth == 4

\* Sixty-fourths of a second: six binary places below the second.
Unit == 64

Variants == {1, 2, 3}
Durations == {2 * Unit, MaxDuration * Unit}
Rates == {2, 3}
Amounts == {0, 1, 2}
SampleValues == {0 - 1, 0, 1}
SampleArrays == UNION {[1..n -> SampleValues] : n \in 0..MaxSamples}
Widths == 1..MaxWidth

NoBuffer == [id |-> 0, duration |-> 0]
NoNode == [started |-> FALSE, offset |-> 0, rate |-> 0]
NoMix == [created |-> FALSE, dry |-> 0, wet |-> 0]

\* The timeline specifications do not look at samples: their buffers carry
\* no channel data and the canvas has no width.
NoWaveform == [data |-> <<>>, width |-> 0, columns |-> <<>>]

\* elapsed * playbackRate, the rate counted in halves: the exact product.
\* The CHOOSE has no value when the product is not a whole number of units.
mulRate(elapsed, rate) ==
    CHOOSE t \in {(elapsed * rate) \div 2} : 2 * t = elapsed * rate

\* The closure's state as one record, so that handlers compose as the code's
\* nested calls do.
Cur ==
    [variant |-> variant, audioCtx |-> audioCtx, now |-> now,
     audioBuffer |-> audioBuffer, sourceNode |-> sourceNode,
     liveSources |-> liveSources, mix |-> mix, isPlaying |-> isPlaying,
     startTime |-> startTime, pausedAt |-> pausedAt,
     playbackRate |-> playbackRate, reverbAmount |-> reverbAmount,
     wasPlaying |-> wasPlaying, controlsDisabled |-> controlsDisabled,
     pendingTicks |-> pendingTicks, sliderValue |-> sliderValue,
     waveform |-> waveform]

Set(s) ==
    /\ variant' = s.variant
    /\ audioCtx' = s.audioCtx
    /\ now' = s.now
    /\ audioBuffer' = s.audioBuffer
    /\ sourceNode' = s.sourceNode
    /\ liveSources' = s.liveSources
    /\ mix' = s.mix
    /\ isPlaying' = s.isPlaying
    /\ startTime' = s.startTime
    /\ pausedAt' = s.pausedAt
    /\ playbackRate' = s.playbackRate
    /\ reverbAmount' = s.reverbAmount
    /\ wasPlaying' = s.wasPlaying
    /\ controlsDisabled' = s.controlsDisabled
    /\ pendingTicks' = s.pendingTicks
    /\ sliderValue' = s.sliderValue
    /\ waveform' = s.waveform

\* The guards that keep the state space finite.
Bounded(s) ==
    /\ s.pendingTicks <= MaxPending
    /\ s.liveSources <= MaxLive
    /\ s.pausedAt <= MaxPos * Unit
    /\ s.startTime >= 0 - MaxPos * Unit

(***************************************************************************)
(* The audio engine.                                                       *)
(***************************************************************************)
initAudio(s) == [s EXCEPT !.audioCtx = TRUE]

disableControls(s, disabled) == [s EXCEPT !.controlsDisabled = disabled]

updateReverbMix(s) ==
    IF ~s.mix.created THEN s
    ELSE [s EXCEPT !.mix = [created |-> TRUE,
                            dry |-> 2 - s.reverbAmount,
                            wet |-> s.reverbAmount * 2]]

\* Mutant of setupReverb: the new gain nodes keep their default gain of 1.
setupReverbDefaultGains(s) ==
    [s EXCEPT !.mix = [created |-> TRUE, dry |-> 2, wet |-> 2]]

setupReverb(s) ==
    updateReverbMix([s EXCEPT !.mix = [created |-> TRUE, dry |-> 2, wet |-> 2]])

\* sourceNode.stop(); sourceNode.disconnect(); sourceNode = null.  A held
\* node whose start() threw was never started and is not a live one.
dropSource(s) ==
    IF s.sourceNode = NoNode THEN s
    ELSE [s EXCEPT !.sourceNode = NoNode,
                   !.liveSources = IF s.sourceNode.started THEN @ - 1 ELSE @]

\* sourceNode.stop() throws InvalidStateError on a node that was never
\* started.  pauseAudio and internalPause of variants 2 and 3 call it outside
\* a try block, as their first statement.
stopThrows(s) ==
    s.variant # 1 /\ s.sourceNode # NoNode /\ ~s.sourceNode.started

\* Mutant of stopReset: the held position is not reset.
stopResetKeepsPosition(s) ==
    [dropSource(s) EXCEPT !.isPlaying = FALSE, !.startTime = 0,
                          !.sliderValue = IF s.variant = 3 THEN @ ELSE 0]

\* Mutant of stopReset: the source node is neither stopped nor released.
stopResetKeepsNode(s) ==
    [s EXCEPT !.isPlaying = FALSE, !.pausedAt = 0, !.startTime = 0,
              !.sliderValue = IF s.variant = 3 THEN @ ELSE 0]

\* The part of stopAudio before its trailing drawWaveform().
stopReset(s) ==
    [dropSource(s) EXCEPT !.isPlaying = FALSE, !.pausedAt = 0, !.startTime = 0,
                          !.sliderValue = IF s.variant = 3 THEN @ ELSE 0]

\* Math.ceil(n / w) for integers n >= 0, w >= 1
ceilDiv(n, w) == (n + w - 1) \div w

\* The inner loop of drawWaveform from j on: acc is [min, max] so far.  An
\* index past the end of the array reads undefined, and both comparisons
\* with undefined are false.
RECURSIVE scanWindow(_, _, _, _, _)
scanWindow(data, base, stepSize, j, acc) ==
    IF j >= stepSize THEN acc
    ELSE IF base + j >= Len(data)
    THEN scanWindow(data, base, stepSize, j + 1, acc)
    ELSE LET datum == data[base + j + 1]
         IN scanWindow(data, base, stepSize, j + 1,
                [min |-> IF datum < acc.min THEN datum ELSE acc.min,
                 max |-> IF datum > acc.max THEN datum ELSE acc.max])

\* Mutant of columnEnvelope: min and max start at 0.
columnEnvelopeFromZero(data, stepSize, i) ==
    scanWindow(data, i * stepSize, stepSize, 0, [min |-> 0, max |-> 0])

\* One pass of the outer loop: column i starts from min = 1.0, max = -1.0.
columnEnvelope(data, stepSize, i) ==
    scanWindow(data, i * stepSize, stepSize, 0, [min |-> 1, max |-> 0 - 1])

\* The (min, max) pairs drawWaveform strokes, column 0 first.
envelope(data, width) ==
    [c \in 1..width |->
        columnEnvelope(data, ceilDiv(Len(data), width), c - 1)]

\* getCurrentTime may stop the engine, stopAudio ends with drawWaveform, and
\* drawWaveform of variant 3 calls getCurrentTime: the recursion ends because
\* stopAudio clears isPlaying before it draws.
RECURSIVE getCurrentTime(_)

drawWaveform(s) ==
    IF s.audioBuffer = NoBuffer THEN s
    ELSE LET drawn == [s EXCEPT !.waveform.columns =
                           envelope(s.waveform.data, s.waveform.width)]
         IN IF s.variant = 3 THEN getCurrentTime(drawn).st ELSE drawn

stopAudio(s) == drawWaveform(stopReset(s))

\* Mutant of getCurrentTime: the end of the track is clamped but does not stop.
getCurrentTimeNoStop(s) ==
    IF ~s.isPlaying THEN [time |-> s.pausedAt, st |-> s]
    ELSE LET elapsed == s.now - s.startTime
             time == s.pausedAt + mulRate(elapsed, s.playbackRate)
         IN IF time > s.audioBuffer.duration
            THEN [time |-> s.audioBuffer.duration, st |-> s]
            ELSE [time |-> time, st |-> s]

\* Mutant of getCurrentTime: the elapsed time is subtracted.
getCurrentTimeBackwards(s) ==
    IF ~s.isPlaying THEN [time |-> s.pausedAt, st |-> s]
    ELSE LET elapsed == s.now - s.startTime
             time == s.pausedAt - mulRate(elapsed, s.playbackRate)
         IN IF time > s.audioBuffer.duration
            THEN [time |-> s.audioBuffer.duration, st |-> stopAudio(s)]
            ELSE [time |-> time, st |-> s]

\* getCurrentTime returns a value and may stop the engine: [time, st].
getCurrentTime(s) ==
    IF ~s.isPlaying THEN [time |-> s.pausedAt, st |-> s]
    ELSE LET elapsed == s.now - s.startTime
             time == s.pausedAt + mulRate(elapsed, s.playbackRate)
         IN IF time > s.audioBuffer.duration
            THEN [time |-> s.audioBuffer.duration, st |-> stopAudio(s)]
            ELSE [time |-> time, st |-> s]

\* sourceNode.start(0, pausedAt) throws RangeError for a negative offset.
playAudioThrows(s) == s.audioBuffer # NoBuffer /\ s.pausedAt < 0

\* When start() throws, the node is created and held and startTime is
\* written; isPlaying is not set and no frame is requested.
playAudio(s) ==
    IF s.audioBuffer = NoBuffer THEN s
    ELSE IF s.pausedAt < 0
    THEN [s EXCEPT
            !.sourceNode = [started |-> FALSE, offset |-> 0,
                            rate |-> s.playbackRate],
            !.startTime = IF s.variant = 1 THEN s.now ELSE s.now - s.pausedAt]
    ELSE [s EXCEPT
            !.sourceNode = [started |-> TRUE, offset |-> s.pausedAt,
                            rate |-> s.playbackRate],
            !.liveSources = @ + 1,
            !.startTime = IF s.variant = 1 THEN s.now ELSE s.now - s.pausedAt,
            !.isPlaying = TRUE,
            !.pendingTicks = @ + 1]

\* Mutant of pauseAudio: the clamp to the duration is missing.
pauseAudioNoClamp(s) ==
    LET elapsedWallTime == s.now - s.startTime
        advanced == mulRate(elapsedWallTime, s.playbackRate)
        t == dropSource(s)
    IN IF stopThrows(s) THEN s
       ELSE IF s.variant = 1
       THEN [t EXCEPT !.pausedAt = s.pausedAt + advanced, !.isPlaying = FALSE]
       ELSE [t EXCEPT !.pausedAt = advanced, !.isPlaying = FALSE]

pauseAudio(s) ==
    LET elapsedWallTime == s.now - s.startTime
        advanced == mulRate(elapsedWallTime, s.playbackRate)
        t == dropSource(s)
    IN IF stopThrows(s) THEN s
       ELSE IF s.variant = 1
       THEN LET p == s.pausedAt + advanced
            IN [t EXCEPT !.pausedAt = IF p > s.audioBuffer.duration
                                      THEN s.audioBuffer.duration ELSE p,
                         !.isPlaying = FALSE]
       ELSE [t EXCEPT !.pausedAt = advanced, !.isPlaying = FALSE]

\* togglePlayPause starts by reading audioCtx.state; audioCtx is null until
\* the first load calls initAudio(), and the read then throws a TypeError.
\* Later it throws when its pauseAudio() or playAudio() does.
togglePlayPauseThrows(s) ==
    \/ ~s.audioCtx
    \/ s.isPlaying /\ stopThrows(s)
    \/ ~s.isPlaying /\ playAudioThrows(s)

\* audioCtx.state throws a TypeError before the first load: nothing changes.
togglePlayPause(s) ==
    IF ~s.audioCtx THEN s
    ELSE IF s.isPlaying
    THEN IF s.variant = 1 THEN pauseAudio(s)
         ELSE pauseAudio([s EXCEPT !.pausedAt =
                  @ + mulRate(s.now - s.startTime, s.playbackRate)])
    ELSE playAudio(s)

internalPause(s) ==
    IF stopThrows(s) THEN s ELSE [dropSource(s) EXCEPT !.isPlaying = FALSE]

\* Mutant of handleSpeedChange: the anchor is not taken again.
handleSpeedChangeKeepsAnchor(s, newRate) ==
    [s EXCEPT !.playbackRate = newRate,
              !.sourceNode = IF s.sourceNode = NoNode THEN NoNode
                             ELSE [@ EXCEPT !.rate = newRate]]

\* Mutant of handleSpeedChange: the anchor time is taken again, the anchor
\* position is not.
handleSpeedChangeKeepsHeld(s, newRate) ==
    IF s.isPlaying
    THEN [s EXCEPT !.startTime = s.now,
                   !.playbackRate = newRate,
                   !.sourceNode = IF s.sourceNode = NoNode THEN NoNode
                                  ELSE [@ EXCEPT !.rate = newRate]]
    ELSE [s EXCEPT !.playbackRate = newRate]

\* Mutant of handleSpeedChange: the anchors are taken again even when not
\* playing.
handleSpeedChangeAlwaysAnchors(s, newRate) ==
    LET r == getCurrentTime(s)
        t == [r.st EXCEPT !.pausedAt = r.time, !.startTime = s.now]
    IN [t EXCEPT !.playbackRate = newRate,
                 !.sourceNode = IF t.sourceNode = NoNode THEN NoNode
                                ELSE [@ EXCEPT !.rate = newRate]]

handleSpeedChange(s, newRate) ==
    IF s.isPlaying
    THEN LET r == getCurrentTime(s)
             t == [r.st EXCEPT !.pausedAt = r.time, !.startTime = s.now]
         IN [t EXCEPT !.playbackRate = newRate,
                      !.sourceNode = IF t.sourceNode = NoNode THEN NoNode
                                     ELSE [@ EXCEPT !.rate = newRate]]
    ELSE [s EXCEPT !.playbackRate = newRate]

handleReverbChange(s, val) == updateReverbMix([s EXCEPT !.reverbAmount = val])

handleSeekStart(s) ==
    IF s.isPlaying THEN internalPause([s EXCEPT !.wasPlaying = TRUE]) ELSE s

\* variant 1 only stores the target; variant 2 restarts playback at it.  An
\* exception of internalPause() or playAudio() ends the handler there.
handleSeek(s, seekTime) ==
    IF s.audioBuffer = NoBuffer THEN s
    ELSE IF s.variant = 1 THEN [s EXCEPT !.pausedAt = seekTime]
    ELSE IF s.isPlaying
    THEN IF stopThrows(s) THEN s
         ELSE playAudio([internalPause(s) EXCEPT !.pausedAt = seekTime])
    ELSE drawWaveform([s EXCEPT !.pausedAt = seekTime])

\* wasPlaying = false comes after playAudio() and is skipped when it throws.
handleSeekEnd(s) ==
    IF s.variant = 1 /\ s.wasPlaying
    THEN IF playAudioThrows(s) THEN playAudio(s)
         ELSE [playAudio(s) EXCEPT !.wasPlaying = FALSE]
    ELSE s

handleScrub(s, seekTime) ==
    IF s.audioBuffer = NoBuffer THEN s
    ELSE IF s.isPlaying
    THEN IF stopThrows(s) THEN s
         ELSE playAudio([internalPause(s) EXCEPT !.pausedAt = seekTime])
    ELSE drawWaveform([s EXCEPT !.pausedAt = seekTime])

\* Mutant of updateProgress: the next frame is requested before the
\* isPlaying test.
updateProgressAlwaysReschedules(s) ==
    IF ~s.isPlaying THEN s
    ELSE IF s.variant = 3 THEN drawWaveform(s)
    ELSE LET r == getCurrentTime(s)
         IN [r.st EXCEPT !.sliderValue = r.time]

updateProgress(s) ==
    LET t == [s EXCEPT !.pendingTicks = @ - 1]
    IN IF ~s.isPlaying THEN t
       ELSE IF s.variant = 3
       THEN [drawWaveform(t) EXCEPT !.pendingTicks = @ + 1]
       ELSE LET r == getCurrentTime(t)
            IN [r.st EXCEPT !.sliderValue = r.time, !.pendingTicks = @ + 1]

resizeCanvas(s) == drawWaveform(s)

\* resizeCanvas where the canvas element now measures offsetWidth
resizeCanvasTo(s, offsetWidth) ==
    drawWaveform([s EXCEPT !.waveform.width = offsetWidth])

\* The synchronous head of handleFileUpload / handleYoutubeLoad.
startLoad(s) == disableControls(stopAudio(initAudio(s)), TRUE)

\* The tail of a load, from the resolved decodeAudioData on.
finishLoad(s, buffer) ==
    LET a == setupReverb([s EXCEPT !.audioBuffer = buffer])
        b == IF s.variant = 3 THEN a ELSE [a EXCEPT !.sliderValue = 0]
    IN disableControls(drawWaveform(b), FALSE)

\* The catch block of a load: console.error, alert, the overlay is hidden.
\* No variable of the closure is assigned.
failLoad(s) == s

(***************************************************************************)
(* Initial state: the closure right after DOMContentLoaded.  Whether the   *)
(* markup starts with the controls disabled is not in the sources.         *)
(***************************************************************************)
Init ==
    /\ variant \in Variants
    /\ audioCtx = FALSE
    /\ now = 0
    /\ audioBuffer = NoBuffer
    /\ sourceNode = NoNode
    /\ liveSources = 0
    /\ mix = NoMix
    /\ isPlaying = FALSE
    /\ startTime = 0
    /\ pausedAt = 0
    /\ playbackRate = 2
    /\ reverbAmount = 0
    /\ wasPlaying = FALSE
    /\ controlsDisabled \in BOOLEAN
    /\ loads = {}
    /\ loadGen = 0
    /\ pendingTicks = 0
    /\ sliderValue = 0
    /\ waveform = NoWaveform
    /\ requests = <<>>
    /\ step = 0

\* A handler ran to completion: the closure's state becomes s.
Ran(s) ==
    /\ Bounded(s)
    /\ Set(s)
    /\ UNCHANGED <<step, requests>>

\* The slider's positions the model tries: every other whole second.
SeekTargets == {t \in 0..audioBuffer.duration : t % (2 * Unit) = 0}

(***************************************************************************)
(* Actions: one per event handler, callback or asynchronous step.          *)
(***************************************************************************)
\* audioCtx.currentTime moves on by two seconds; the clock is followed for as
\* long as the longest buffer lasts.
AdvanceClock ==
    /\ audioCtx
    /\ now + 2 * Unit <= MaxDuration * Unit
    /\ now' = now + 2 * Unit
    /\ UNCHANGED <<variant, audioCtx, audioBuffer, sourceNode, liveSources,
                   mix, isPlaying, startTime, pausedAt, playbackRate,
                   reverbAmount, wasPlaying, controlsDisabled, loads, loadGen,
                   pendingTicks, sliderValue, waveform, requests, step>>

HandleFileUpload ==
    /\ loadGen < MaxLoads
    /\ loads' = loads \cup {loadGen + 1}
    /\ loadGen' = loadGen + 1
    /\ Ran(startLoad(Cur))

HandleYoutubeLoad ==
    /\ variant = 1
    /\ loadGen < MaxLoads
    /\ loads' = loads \cup {loadGen + 1}
    /\ loadGen' = loadGen + 1
    /\ Ran(startLoad(Cur))

\* Every await of a load resolved (file.arrayBuffer() or fetch() with an OK
\* response, then decodeAudioData): the rest of the handler runs.  The awaits
\* before the decode touch no state of the closure.  The decoded buffer is
\* the load's own object (id = the load's number); its duration is only
\* known now.
LoadDecoded ==
    \E l \in loads, d \in Durations :
        /\ loads' = loads \ {l}
        /\ UNCHANGED loadGen
        /\ Ran(finishLoad(Cur, [id |-> l, duration |-> d]))

\* A rejected await (or a response that is not OK): the catch block.
LoadFailed ==
    \E l \in loads :
        /\ loads' = loads \ {l}
        /\ UNCHANGED loadGen
        /\ Ran(failLoad(Cur))

\* A click on the play button; a disabled button fires no click.
TogglePlayPause ==
    /\ ~controlsDisabled
    /\ UNCHANGED <<loads, loadGen>>
    /\ Ran(togglePlayPause(Cur))

\* The speed knob (variants 1, 2: a drag begun while enabled goes on) or the
\* speed slider (variant 3: disabled with the controls).
HandleSpeedChange ==
    /\ variant = 3 => ~controlsDisabled
    /\ UNCHANGED <<loads, loadGen>>
    /\ \E v \in Rates : Ran(handleSpeedChange(Cur, v))

HandleReverbChange ==
    /\ variant = 3 => ~controlsDisabled
    /\ UNCHANGED <<loads, loadGen>>
    /\ \E a \in Amounts : Ran(handleReverbChange(Cur, a))

\* mousedown / touchstart on the seek slider
HandleSeekStart ==
    /\ variant = 1
    /\ ~controlsDisabled
    /\ UNCHANGED <<loads, loadGen>>
    /\ Ran(handleSeekStart(Cur))

\* input on the seek slider: the slider holds the target, 0..max = duration
HandleSeek ==
    /\ variant \in {1, 2}
    /\ ~controlsDisabled
    /\ UNCHANGED <<loads, loadGen>>
    /\ \E t \in SeekTargets :
         Ran(handleSeek([Cur EXCEPT !.sliderValue = t], t))

\* change / mouseup / touchend on the seek slider
HandleSeekEnd ==
    /\ variant \in {1, 2}
    /\ ~controlsDisabled
    /\ UNCHANGED <<loads, loadGen>>
    /\ Ran(handleSeekEnd(Cur))

\* click on the canvas, which disableControls never disables
HandleScrub ==
    /\ variant = 3
    /\ UNCHANGED <<loads, loadGen>>
    /\ \E t \in SeekTargets : Ran(handleScrub(Cur, t))

\* One requested animation-frame callback runs.
UpdateProgress ==
    /\ pendingTicks > 0
    /\ UNCHANGED <<loads, loadGen>>
    /\ Ran(updateProgress(Cur))

ResizeCanvas ==
    /\ UNCHANGED <<loads, loadGen>>
    /\ Ran(resizeCanvas(Cur))

Next ==
    \/ AdvanceClock
    \/ HandleFileUpload
    \/ HandleYoutubeLoad
    \/ LoadDecoded
    \/ LoadFailed
    \/ TogglePlayPause
    \/ HandleSpeedChange
    \/ HandleSeekStart
    \/ HandleSeek
    \/ HandleSeekEnd
    \/ HandleScrub
    \/ UpdateProgress
    \/ ResizeCanvas

Spec == Init /\ [][Next]_vars

\* The fixed point is exact: every clock reading and position of a reachable
\* state is a whole number of eighths of a second, so three binary places
\* are left for the next products.
OnGrid ==
    \A x \in {now, startTime, pausedAt, sliderValue} : x % (Unit \div 8) = 0

\* The browser runs every requested animation frame callback: a pending
\* updateProgress is not postponed forever.
SpecFair == Init /\ [][Next]_vars /\ WF_vars(UpdateProgress)

(***************************************************************************)
(* One playing period with rate changes.  The closure has loaded a buffer, *)
(* the user has sought to a position and chosen a rate while stopped, and  *)
(* has pressed play; from then on only the clock, the speed control and    *)
(* the progress ticks act.                                                 *)
(***************************************************************************)
\* The closure's variables right after DOMContentLoaded, controls enabled.
Fresh(v) ==
    [variant |-> v, audioCtx |-> FALSE, now |-> 0, audioBuffer |-> NoBuffer,
     sourceNode |-> NoNode, liveSources |-> 0, mix |-> NoMix,
     isPlaying |-> FALSE, startTime |-> 0, pausedAt |-> 0,
     playbackRate |-> 2, reverbAmount |-> 0, wasPlaying |-> FALSE,
     controlsDisabled |-> FALSE, pendingTicks |-> 0, sliderValue |-> 0,
     waveform |-> NoWaveform]

\* load a buffer of duration d, seek to p, set rate r, press play
Started(v, d, p, r) ==
    LET loaded == finishLoad(startLoad(Fresh(v)), [id |-> 1, duration |-> d])
        sought == IF v = 3 THEN handleScrub(loaded, p)
                  ELSE handleSeek([loaded EXCEPT !.sliderValue = p], p)
    IN togglePlayPause(handleSpeedChange(sought, r))

InitRates ==
    \E v \in Variants, d \in Durations, r \in Rates :
        \E p \in {t \in 0..d : t % (2 * Unit) = 0} :
            LET s == Started(v, d, p, r)
            IN /\ variant = s.variant
               /\ audioCtx = s.audioCtx
               /\ now = s.now
               /\ audioBuffer = s.audioBuffer
               /\ sourceNode = s.sourceNode
               /\ liveSources = s.liveSources
               /\ mix = s.mix
               /\ isPlaying = s.isPlaying
               /\ startTime = s.startTime
               /\ pausedAt = s.pausedAt
               /\ playbackRate = s.playbackRate
               /\ reverbAmount = s.reverbAmount
               /\ wasPlaying = s.wasPlaying
               /\ controlsDisabled = s.controlsDisabled
               /\ pendingTicks = s.pendingTicks
               /\ sliderValue = s.sliderValue
               /\ waveform = s.waveform
               /\ requests = <<>>
               /\ loads = {}
               /\ loadGen = 1
               /\ step = 0

NextRates ==
    \/ AdvanceClock
    \/ HandleSpeedChange
    \/ UpdateProgress

SpecRates == InitRates /\ [][NextRates]_vars

(***************************************************************************)
(* SpecPlayout: a playing period left alone.  No handler of a user event   *)
(* runs; the device clock runs on to PlayoutEnd, past the end of every     *)
(* buffer, and the browser runs every requested animation frame.           *)
(***************************************************************************)
PlayoutEnd == 2 * Unit * MaxDuration

ClockRuns ==
    /\ now < PlayoutEnd
    /\ now' = now + 2 * Unit
    /\ UNCHANGED <<variant, audioCtx, audioBuffer, sourceNode, liveSources,
                   mix, isPlaying, startTime, pausedAt, playbackRate,
                   reverbAmount, wasPlaying, controlsDisabled, loads, loadGen,
                   pendingTicks, sliderValue, waveform, requests, step>>

NextPlayout == ClockRuns \/ UpdateProgress

SpecPlayout ==
    InitRates /\ [][NextPlayout]_vars
        /\ WF_vars(ClockRuns) /\ WF_vars(UpdateProgress)

(***************************************************************************)
(* The reverb mix.  reverbAmount and the gain nodes are written by         *)
(* handleReverbChange and by a load's setupReverb, and no handler of the   *)
(* timeline reads them: the knob is explored together with the loads, on   *)
(* its own.                                                                *)
(***************************************************************************)
NextMix ==
    \/ HandleFileUpload
    \/ HandleYoutubeLoad
    \/ LoadDecoded
    \/ LoadFailed
    \/ HandleReverbChange

SpecMix == Init /\ [][NextMix]_vars

(***************************************************************************)
(* SpecWaveform: the waveform drawing.  A load is in flight on a canvas of *)
(* some width; it decodes to some channel data, and the window is resized. *)
(***************************************************************************)
InitWaveform ==
    \E v \in Variants, w \in Widths :
        LET s == [startLoad(Fresh(v)) EXCEPT !.waveform.width = w]
        IN /\ variant = s.variant
           /\ audioCtx = s.audioCtx
           /\ now = s.now
           /\ audioBuffer = s.audioBuffer
           /\ sourceNode = s.sourceNode
           /\ liveSources = s.liveSources
           /\ mix = s.mix
           /\ isPlaying = s.isPlaying
           /\ startTime = s.startTime
           /\ pausedAt = s.pausedAt
           /\ playbackRate = s.playbackRate
           /\ reverbAmount = s.reverbAmount
           /\ wasPlaying = s.wasPlaying
           /\ controlsDisabled = s.controlsDisabled
           /\ pendingTicks = s.pendingTicks
           /\ sliderValue = s.sliderValue
           /\ waveform = s.waveform
           /\ requests = <<>>
           /\ loads = {1}
           /\ loadGen = 1
           /\ step = 0

\* The load resolves: the decoded buffer carries the channel data.
WaveformDecoded ==
    \E l \in loads, data \in SampleArrays :
        /\ loads' = loads \ {l}
        /\ UNCHANGED loadGen
        /\ Ran(finishLoad([Cur EXCEPT !.waveform.data = data],
                          [id |-> l, duration |-> MaxDuration * Unit]))

\* A resize event of the window.
WaveformResized ==
    \E w \in Widths :
        /\ UNCHANGED <<loads, loadGen>>
        /\ Ran(resizeCanvasTo(Cur, w))

NextWaveform == WaveformDecoded \/ WaveformResized

SpecWaveform == InitWaveform /\ [][NextWaveform]_vars

(***************************************************************************)
(* SpecYoutube: variant 1 loading through GET /api/process-youtube.  The   *)
(* server is its own process; what ytdl answers is its environment.        *)
(***************************************************************************)
Failures == {"none", "getInfo", "chooseFormat"}

\* A request as fetch() sends it: nothing answered yet.
newRequest(valid) ==
    [stage |-> "sent", valid |-> valid, failure |-> "none", status |-> 0,
     body |-> "none", sends |-> 0, getInfoCalls |-> 0]

\* Mutant of processYoutube: the return after the 400 answer is missing.
processYoutubeFallsThrough(req) ==
    LET a == IF req.valid THEN req
             ELSE [req EXCEPT !.status = 400, !.body = "json",
                              !.sends = @ + 1]
    IN [a EXCEPT !.stage = "awaiting", !.getInfoCalls = @ + 1]

\* The route handler up to its await: an invalid URL is answered 400 and the
\* handler returns; otherwise ytdl.getInfo is called and the handler waits
\* for it, with nothing sent.
processYoutube(req) ==
    IF ~req.valid
    THEN [req EXCEPT !.stage = "responded", !.status = 400, !.body = "json",
                     !.sends = @ + 1]
    ELSE [req EXCEPT !.stage = "awaiting", !.getInfoCalls = @ + 1]

\* The route handler from its await on, in a later task.  failure says
\* whether the getInfo promise rejected or chooseFormat throws: both end in
\* the catch block.  Otherwise the stream is piped into the response.
resumeYoutube(req, failure) ==
    LET b == [req EXCEPT !.failure = failure]
    IN IF failure # "none"
       THEN [b EXCEPT !.stage = "responded", !.status = 500,
                      !.body = "json", !.sends = @ + 1]
       ELSE [b EXCEPT !.stage = "responded", !.status = 200,
                      !.body = "stream", !.sends = @ + 1]

\* response.ok
ok(req) == req.status >= 200 /\ req.status <= 299

\* handleYoutubeLoad after the fetch resolved.  decoded is the buffer that
\* arrayBuffer() and decodeAudioData yield for the body, NoBuffer when one of
\* them rejects.
youtubeContinuation(s, req, decoded) ==
    IF ~ok(req) THEN failLoad(s)
    ELSE IF decoded = NoBuffer THEN failLoad(s)
    ELSE finishLoad(s, decoded)

InitYoutube == Init /\ variant = 1

\* click on the load button with a non-empty URL: the head of
\* handleYoutubeLoad up to the fetch
YoutubeRequested ==
    \E valid \in BOOLEAN :
        /\ loadGen < MaxLoads
        /\ loads' = loads \cup {loadGen + 1}
        /\ loadGen' = loadGen + 1
        /\ requests' = Append(requests, newRequest(valid))
        /\ Bounded(startLoad(Cur))
        /\ Set(startLoad(Cur))
        /\ UNCHANGED step

\* A request arrives at the server: the route handler runs up to its await.
ProcessYoutube ==
    \E l \in DOMAIN requests :
        /\ requests[l].stage = "sent"
        /\ requests' = [requests EXCEPT ![l] = processYoutube(@)]
        /\ UNCHANGED <<variant, audioCtx, now, audioBuffer, sourceNode,
                       liveSources, mix, isPlaying, startTime, pausedAt,
                       playbackRate, reverbAmount, wasPlaying,
                       controlsDisabled, loads, loadGen, pendingTicks,
                       sliderValue, waveform, step>>

\* The getInfo promise of a waiting request settled: its handler goes on.
ResumeYoutube ==
    \E l \in DOMAIN requests, failure \in Failures :
        /\ requests[l].stage = "awaiting"
        /\ requests' = [requests EXCEPT ![l] = resumeYoutube(@, failure)]
        /\ UNCHANGED <<variant, audioCtx, now, audioBuffer, sourceNode,
                       liveSources, mix, isPlaying, startTime, pausedAt,
                       playbackRate, reverbAmount, wasPlaying,
                       controlsDisabled, loads, loadGen, pendingTicks,
                       sliderValue, waveform, step>>

\* The fetch resolved with the server's answer: the rest of
\* handleYoutubeLoad runs.
YoutubeResponded ==
    \E l \in loads, d \in Durations \cup {0} :
        LET decoded == IF d = 0 THEN NoBuffer ELSE [id |-> l, duration |-> d]
            s == youtubeContinuation(Cur, requests[l], decoded)
        IN /\ requests[l].stage = "responded"
           /\ requests' = [requests EXCEPT ![l].stage = "closed"]
           /\ loads' = loads \ {l}
           /\ Bounded(s)
           /\ Set(s)
           /\ UNCHANGED <<loadGen, step>>

NextYoutube ==
    \/ YoutubeRequested
    \/ ProcessYoutube
    \/ ResumeYoutube
    \/ YoutubeResponded

SpecYoutube == InitYoutube /\ [][NextYoutube]_vars

(***************************************************************************)
(* The scripted scenario of the specification's testable properties, run   *)
(* against the handlers.  The buffer lasts Sec(10), rate 4 is 2.0x, and    *)
(* the clock moves by half seconds.  `step` is the script's position;      *)
(* animation frames may run between its steps.  In variant 1 the seek is   *)
(* the slider gesture (mousedown, input, mouseup).                         *)
(***************************************************************************)
Sec(x) == Unit * x

InitScenario ==
    /\ variant \in Variants
    /\ audioCtx = FALSE
    /\ now = 0
    /\ audioBuffer = NoBuffer
    /\ sourceNode = NoNode
    /\ liveSources = 0
    /\ mix = NoMix
    /\ isPlaying = FALSE
    /\ startTime = 0
    /\ pausedAt = 0
    /\ playbackRate = 2
    /\ reverbAmount = 0
    /\ wasPlaying = FALSE
    /\ controlsDisabled \in BOOLEAN
    /\ loads = {}
    /\ loadGen = 0
    /\ pendingTicks = 0
    /\ sliderValue = 0
    /\ waveform = NoWaveform
    /\ requests = <<>>
    /\ step = 1

\* A scripted step: the closure's state becomes s, the script moves to n.
Script(s, n) ==
    /\ Set(s)
    /\ step' = n
    /\ UNCHANGED <<loads, loadGen, requests>>

ScenarioLoad ==
    /\ step = 1
    /\ Set(startLoad(Cur))
    /\ loads' = {1}
    /\ loadGen' = 1
    /\ UNCHANGED requests
    /\ step' = 2

ScenarioDecoded ==
    /\ step = 2
    /\ Set(finishLoad(Cur, [id |-> 1, duration |-> Sec(10)]))
    /\ loads' = {}
    /\ UNCHANGED <<loadGen, requests>>
    /\ step' = 3

\* The device clock runs for a while before play is pressed at T0.
ScenarioWait ==
    /\ step = 3
    /\ now < Unit * MaxTicks
    /\ Script([Cur EXCEPT !.now = @ + Unit \div 2], 3)

ScenarioPlay ==
    /\ step = 3
    /\ Script(togglePlayPause(Cur), 4)

\* Half a second of device time passes: steps 4..7 lead to T0+2.0,
\* steps 9..10 to T0+3.0, step 14 to T0+3.5.
ScenarioAdvance ==
    /\ step \in {4, 5, 6, 7, 9, 10, 14}
    /\ Script([Cur EXCEPT !.now = @ + Unit \div 2], step + 1)

ScenarioSetRate ==
    /\ step = 8
    /\ Script(handleSpeedChange(Cur, 4), 9)

ScenarioSeekStart ==
    /\ step = 11
    /\ variant = 1
    /\ Script(handleSeekStart(Cur), 12)

ScenarioSeekInput ==
    /\ step = 12
    /\ variant = 1
    /\ Script(handleSeek([Cur EXCEPT !.sliderValue = Sec(9)], Sec(9)), 13)

ScenarioSeekEnd ==
    /\ step = 13
    /\ variant = 1
    /\ Script(handleSeekEnd(Cur), 14)

ScenarioSeek ==
    /\ step = 11
    /\ variant \in {2, 3}
    /\ Script(IF variant = 2
              THEN handleSeek([Cur EXCEPT !.sliderValue = Sec(9)], Sec(9))
              ELSE handleScrub(Cur, Sec(9)), 14)

ScenarioFrame ==
    /\ step >= 4
    /\ pendingTicks > 0
    /\ Script(updateProgress(Cur), step)

NextScenario ==
    \/ ScenarioLoad
    \/ ScenarioDecoded
    \/ ScenarioWait
    \/ ScenarioPlay
    \/ ScenarioAdvance
    \/ ScenarioSetRate
    \/ ScenarioSeekStart
    \/ ScenarioSeekInput
    \/ ScenarioSeekEnd
    \/ ScenarioSeek
    \/ ScenarioFrame

SpecScenario == InitScenario /\ [][NextScenario]_vars

(***************************************************************************)
(* Claims.                                                                 *)
(***************************************************************************)
\* What getCurrentTime() would return in state s at device time clock.
timeAt(s, clock) == getCurrentTime([s EXCEPT !.now = clock]).time

capped(p, duration) == IF p > duration THEN duration ELSE p

\* C1: a rate change while Playing keeps the position: getCurrentTime()
\* returns the same p right after handleSpeedChange(r2) as right before it,
\* the stored rate is r2, and from then on the position advances by r2 per
\* second of device time (up to the duration).
C1_RateChangeKeepsPosition ==
    isPlaying =>
        \A r2 \in Rates :
            LET p == getCurrentTime(Cur).time
                a == handleSpeedChange(Cur, r2)
            IN /\ timeAt(a, now) = p
               /\ a.playbackRate = r2
               /\ \A d \in {2 * Unit, 4 * Unit} :
                    timeAt(a, now + d)
                        = capped(p + mulRate(d, r2), audioBuffer.duration)

\* C1 witness: Playing at 1.5x, re-anchored at the present device time at a
\* position the source node was not started at.
C1_Witness ==
    /\ isPlaying
    /\ now > 0
    /\ startTime = now
    /\ playbackRate = 3
    /\ sourceNode.rate = 3
    /\ pausedAt > sourceNode.offset

\* C2: after the seek handler ran with a target t in [0, duration], from any
\* transport state, getCurrentTime() at the same device time returns t.
C2_SeekThenPositionIsTarget ==
    audioBuffer # NoBuffer =>
        \A t \in SeekTargets :
            /\ (variant \in {1, 2} /\ ~controlsDisabled) =>
                   timeAt(handleSeek([Cur EXCEPT !.sliderValue = t], t), now) = t
            /\ variant = 3 => timeAt(handleScrub(Cur, t), now) = t

\* C3: getCurrentTime() called while Playing with the computed position
\* beyond the duration returns the duration and leaves the engine Stopped:
\* not playing, no source node held, held position 0.
C3_EndOfTrackStops ==
    (/\ isPlaying
     /\ pausedAt + mulRate(now - startTime, playbackRate)
            > audioBuffer.duration) =>
        LET r == getCurrentTime(Cur)
        IN /\ r.time = audioBuffer.duration
           /\ ~r.st.isPlaying
           /\ r.st.sourceNode = NoNode
           /\ r.st.pausedAt = 0

\* C3 witness: a progress tick met the end of the track: the engine is
\* Stopped at 0 while the slider shows the duration the call returned.
C3_Witness ==
    /\ audioBuffer # NoBuffer
    /\ ~isPlaying
    /\ sourceNode = NoNode
    /\ pausedAt = 0
    /\ now > 0
    /\ sliderValue = audioBuffer.duration
    /\ pendingTicks > 0

\* C4: the scenario: 2.0 s after play the position is 2.0; after setRate(2.0)
\* and one more second it is 4.0; after seek(9.0) it is 9.0; half a second
\* later getCurrentTime() returns 10.0 and the engine is Stopped.
C4_Scenario ==
    /\ step = 8 => timeAt(Cur, now) = Sec(2)
    /\ step = 11 => timeAt(Cur, now) = Sec(4)
    /\ step \in {13, 14} => timeAt(Cur, now) = Sec(9)
    /\ step = 15 => /\ timeAt(Cur, now) = Sec(10)
                    /\ ~getCurrentTime(Cur).st.isPlaying

\* C5: play from a not-Playing state with a buffer and held position p: the
\* engine is Playing, one new source node was started at offset p with the
\* current rate, and getCurrentTime() at the same device time returns p.
C5_PlayAnchorsAtHeldPosition ==
    (audioBuffer # NoBuffer /\ ~isPlaying) =>
        LET a == playAudio(Cur)
        IN /\ a.isPlaying
           /\ a.liveSources = liveSources + 1
           /\ a.sourceNode = [started |-> TRUE, offset |-> pausedAt,
                              rate |-> playbackRate]
           /\ timeAt(a, now) = pausedAt

\* C6 (variant 1): pause while Playing where the anchor formula gives p: the
\* engine is not Playing, holds no source node, holds p clamped to
\* [0, duration], and getCurrentTime() returns that value at every later
\* device time, before and after pending progress ticks.
C6_PauseHoldsPosition ==
    (variant = 1 /\ isPlaying /\ audioCtx) =>
        LET p == pausedAt + mulRate(now - startTime, playbackRate)
            held == IF p < 0 THEN 0 ELSE capped(p, audioBuffer.duration)
            a == togglePlayPause(Cur)
        IN /\ ~a.isPlaying
           /\ a.sourceNode = NoNode
           /\ a.pausedAt = held
           /\ \A d \in {0, 2 * Unit, 4 * Unit} :
                LET b == [a EXCEPT !.now = now + d]
                IN /\ getCurrentTime(b).time = held
                   /\ getCurrentTime(b).st = b
                   /\ b.pendingTicks > 0 =>
                        getCurrentTime(updateProgress(b)).time = held

\* C6 witness: variant 1 paused, outside any seek gesture, at a position that
\* only playback at 1.5x reaches (seek targets are even seconds).
C6_Witness ==
    /\ variant = 1
    /\ ~isPlaying
    /\ ~wasPlaying
    /\ sourceNode = NoNode
    /\ pausedAt = 3 * Unit
    /\ startTime < now

\* C7: from every reachable state stopAudio() leaves the engine not Playing,
\* with no source node held and held position 0, so that getCurrentTime()
\* then returns 0.
C7_StopResets ==
    LET a == stopAudio(Cur)
    IN /\ ~a.isPlaying
       /\ a.sourceNode = NoNode
       /\ a.pausedAt = 0
       /\ timeAt(a, now) = 0
       /\ getCurrentTime(a).st = a

\* C7 witness: a load was started in the middle of a seek drag that had
\* interrupted playback; its stopAudio() left the engine Stopped at 0.
C7_Witness ==
    /\ wasPlaying
    /\ loads # {}
    /\ audioBuffer # NoBuffer
    /\ now > 0
    /\ ~isPlaying
    /\ sourceNode = NoNode
    /\ pausedAt = 0
    /\ startTime = 0

\* C8: at the moment a load completes and stores its buffer the engine is
\* Stopped: not playing, no source node held, held position 0, whatever
\* happened while the load was in flight.
C8_LoadCompletesStopped ==
    \A l \in loads, d \in Durations :
        LET a == finishLoad(Cur, [id |-> l, duration |-> d])
        IN /\ ~a.isPlaying
           /\ a.sourceNode = NoNode
           /\ a.pausedAt = 0

\* C9: of two overlapping loads the later started one wins: when the newest
\* load's buffer is already held, the completion of an older load leaves it
\* held.
C9_NewestLoadWins ==
    \A l \in loads, d \in Durations :
        (audioBuffer.id = loadGen /\ l < loadGen) =>
            finishLoad(Cur, [id |-> l, duration |-> d]).audioBuffer.id
                = loadGen

\* C10: while a load is in flight the engine is Stopped (not playing, held
\* position 0) and the transport controls are disabled.
C10_LoadingMeansStoppedAndDisabled ==
    loads # {} => (~isPlaying /\ pausedAt = 0 /\ controlsDisabled)

\* C11: a failed load restores the engine: the buffer held before is kept,
\* and when the failing load is the only one in flight and a buffer was held
\* before it, the controls are enabled again.
C11_FailedLoadRestores ==
    \A l \in loads :
        LET a == failLoad(Cur)
        IN /\ a.audioBuffer = audioBuffer
           /\ (loads = {l} /\ audioBuffer # NoBuffer) => ~a.controlsDisabled

\* C12: with no buffer ever loaded, a play request and a seek request are
\* no-ops that do not crash: nothing is thrown, the engine stays Stopped at
\* 0, no source node is created, no progress tick is scheduled.
C12_NoBufferRequestsAreNoOps ==
    (audioBuffer = NoBuffer /\ ~controlsDisabled) =>
        /\ ~togglePlayPauseThrows(Cur)
        /\ togglePlayPause(Cur) = Cur
        /\ playAudio(Cur) = Cur
        /\ \A t \in {0, 2 * Unit} : handleSeek(Cur, t) = Cur
        /\ ~isPlaying /\ pausedAt = 0 /\ sourceNode = NoNode
        /\ pendingTicks = 0

\* C13: after handleSpeedChange(v) for any v, also below 0.5 and above 1.5,
\* the stored playbackRate and the rate of a live source node lie in
\* [0.5, 1.5] (1..3 in halves), and so does playbackRate in every state.
C13_RateIsClamped ==
    /\ playbackRate \in 1..3
    /\ \A v \in 0..4 :
           LET a == handleSpeedChange(Cur, v)
           IN /\ a.playbackRate \in 1..3
              /\ a.sourceNode # NoNode => a.sourceNode.rate \in 1..3

\* C14: after a seek with any target, also negative or beyond the duration,
\* the position the engine holds or anchors at is the target clamped to
\* [0, duration].
C14_SeekIsClamped ==
    audioBuffer # NoBuffer =>
        \A t \in {0 - Unit, 0, audioBuffer.duration,
                  audioBuffer.duration + Unit} :
            LET c == IF t < 0 THEN 0 ELSE capped(t, audioBuffer.duration)
                a == IF variant = 3 THEN handleScrub(Cur, t)
                     ELSE handleSeek([Cur EXCEPT !.sliderValue = t], t)
            IN /\ a.pausedAt = c
               /\ a.isPlaying => a.sourceNode.offset = c

\* What C15 compares: the Playing flag, the held position, the anchor and
\* the render chain.
engineView(s) ==
    <<s.isPlaying, s.pausedAt, s.startTime, s.playbackRate, s.sourceNode,
      s.liveSources>>

\* C15: pauseAudio() called when the engine is already Paused, and stopAudio()
\* called when it is already Stopped, change nothing: isPlaying, the held
\* position, the anchor and the render chain are the same before and after.
C15_PauseAndStopIdempotent ==
    (audioBuffer # NoBuffer /\ ~isPlaying /\ sourceNode = NoNode) =>
        /\ engineView(pauseAudio(Cur)) = engineView(Cur)
        /\ (pausedAt = 0 /\ startTime = 0) =>
               engineView(stopAudio(Cur)) = engineView(Cur)

\* C16: while Playing with no other operation in between, the values
\* getCurrentTime() returns at device times t1 <= t2 satisfy
\* pos(t1) <= pos(t2), up to and including the call that first returns the
\* duration, and never pass the duration.
C16_PositionMonotone ==
    isPlaying =>
        \A d1 \in {0, 2 * Unit, 4 * Unit}, d2 \in {0, 2 * Unit, 4 * Unit} :
            d1 <= d2 =>
                LET r1 == getCurrentTime([Cur EXCEPT !.now = now + d1])
                    r2 == getCurrentTime([r1.st EXCEPT !.now = now + d2])
                IN r1.st.isPlaying =>
                       /\ r1.time <= r2.time
                       /\ r2.time <= audioBuffer.duration

\* C16 witness: variant 1 played from 0 at 1.0x, a progress tick pushed
\* position 2 s at device time 2 s, and the clock has moved on to 4 s.
C16_Witness ==
    /\ variant = 1
    /\ isPlaying
    /\ audioBuffer.duration = 4 * Unit
    /\ pausedAt = 0
    /\ startTime = 0
    /\ playbackRate = 2
    /\ sliderValue = 2 * Unit
    /\ now = 4 * Unit

\* C17: in every reachable state in which the dry and wet gain nodes exist,
\* the dry gain is 1 - reverbAmount and the wet gain is 2 * reverbAmount
\* (in halves: 2 - amount and 2 * amount), for any order of
\* handleReverbChange and loads.
C17_MixFollowsAmount ==
    mix.created =>
        /\ mix.dry = 2 - reverbAmount
        /\ mix.wet = 2 * reverbAmount
        /\ reverbAmount = 0 => (mix.dry = 2 /\ mix.wet = 0)
        /\ reverbAmount = 2 => (mix.dry = 0 /\ mix.wet = 4)

\* C17 witness: the mix is at 1 and the gain nodes are those the second load
\* created.
C17_Witness ==
    /\ mix.created
    /\ reverbAmount = 2
    /\ mix.wet = 4
    /\ audioBuffer.id = 2
    /\ loads = {}

\* What one tick of updateProgress does, in a state where one is pending.
C18_TickStep ==
    pendingTicks > 0 =>
        LET a == updateProgress(Cur)
            r == getCurrentTime(Cur)
        IN IF ~isPlaying
           THEN a = [Cur EXCEPT !.pendingTicks = @ - 1]
           ELSE /\ a.pendingTicks = pendingTicks
                /\ variant \in {1, 2} => a.sliderValue = r.time
                /\ [a EXCEPT !.sliderValue = 0, !.pendingTicks = 0]
                       = [r.st EXCEPT !.sliderValue = 0, !.pendingTicks = 0]

\* C18: a tick of updateProgress that runs while the engine is not Playing
\* schedules no further tick and writes nothing; a tick that runs while
\* Playing reads getCurrentTime(), pushes it to the UI and schedules the next
\* tick.  So once the engine has left Playing for good, eventually no
\* progress tick is pending.
C18_ProgressLoop ==
    /\ []C18_TickStep
    /\ <>[](~isPlaying) => <>[](pendingTicks = 0)

\* C18 witness: the engine played (startTime was set at a later device time
\* than 0), was paused, and the pending ticks have run out.
C18_Witness ==
    /\ ~isPlaying
    /\ startTime > 0
    /\ pausedAt > 0
    /\ pendingTicks = 0

\* A rate segment <<d, r>>: the device clock advances by d, then
\* handleSpeedChange(r) is called.
Segments == {0, 2 * Unit, 4 * Unit} \X Rates

SegmentSeqs ==
    {<<>>} \cup {<<a>> : a \in Segments}
           \cup {<<a, b>> : a \in Segments, b \in Segments}

RECURSIVE runSegments(_, _)
runSegments(s, segs) ==
    IF segs = <<>> THEN s
    ELSE runSegments(handleSpeedChange([s EXCEPT !.now = @ + Head(segs)[1]],
                                       Head(segs)[2]),
                     Tail(segs))

\* The reference accumulator: the position advances by rate * dt.
RECURSIVE accumulate(_, _, _)
accumulate(p, rate, segs) ==
    IF segs = <<>> THEN p
    ELSE accumulate(p + mulRate(Head(segs)[1], rate), Head(segs)[2],
                    Tail(segs))

\* C19: for any sequence of handleSpeedChange calls made at arbitrary device
\* times while Playing from position p0, getCurrentTime() equals p0 plus the
\* sum over the rate segments of segment length * rate in force, capped at
\* the duration: it matches the reference accumulator.
C19_MatchesAccumulator ==
    isPlaying =>
        \A segs \in SegmentSeqs, d \in {0, 2 * Unit} :
            LET p0 == getCurrentTime(Cur).time
                a == runSegments(Cur, segs)
                ref == accumulate(p0, playbackRate, segs)
                          + mulRate(d, a.playbackRate)
            IN timeAt(a, a.now + d) = capped(ref, audioBuffer.duration)

\* C19 witness: playback started from 0 at device time 0, ran at 1.5x to
\* position 3 s, and was re-anchored there by a rate change to 1.0x.
C19_Witness ==
    /\ isPlaying
    /\ now = 2 * Unit
    /\ startTime = 2 * Unit
    /\ pausedAt = 3 * Unit
    /\ sourceNode.offset = 0
    /\ playbackRate = 2
    /\ audioBuffer.duration = 4 * Unit

\* C20: in every reachable state with a buffer loaded, the value
\* getCurrentTime() returns lies in [0, duration] of the held buffer.
C20_PositionWithinBuffer ==
    audioBuffer # NoBuffer =>
        /\ 0 <= getCurrentTime(Cur).time
        /\ getCurrentTime(Cur).time <= audioBuffer.duration

\* The position computed from the anchors has passed the end of the buffer:
\* the next getCurrentTime() stops the engine.
pastTheEnd(s) ==
    /\ s.isPlaying
    /\ s.pausedAt + mulRate(s.now - s.startTime, s.playbackRate)
          > s.audioBuffer.duration

stoppedAtZero(s) == ~s.isPlaying /\ s.pausedAt = 0 /\ s.sourceNode = NoNode

\* C21: whenever the end-of-track stop fires, from any caller of
\* getCurrentTime() (the call itself, a progress tick, a rate change while
\* playing), the operation ends with the engine not playing, the held
\* position 0 and no source node held.
C21_AutoStopLeavesZero ==
    pastTheEnd(Cur) =>
        /\ stoppedAtZero(getCurrentTime(Cur).st)
        /\ stoppedAtZero(updateProgress(Cur))
        /\ \A v \in Rates : stoppedAtZero(handleSpeedChange(Cur, v))

\* C22: the number of source nodes started and not stopped is 1 while
\* isPlaying and 0 otherwise.
C22_OneLiveSource ==
    liveSources = IF isPlaying THEN 1 ELSE 0

\* C23: at most one updateProgress callback is pending.
C23_OnePendingTick ==
    pendingTicks <= 1

\* Play from the held position of s, let `elapsed` of device time pass, pause
\* with the play button.
playThenPause(s, elapsed) ==
    togglePlayPause([playAudio(s) EXCEPT !.now = s.now + elapsed])

\* C24: in the variants whose togglePlayPause adds elapsed * playbackRate to
\* pausedAt before calling pauseAudio (2 and 3), playing from the held
\* position p0 at rate r for e of device time and pausing holds p0 + e * r
\* (taken where that lies within the buffer), and the following play starts
\* its source node there.
C24_PauseComputesOnce ==
    (variant \in {2, 3} /\ audioCtx /\ audioBuffer # NoBuffer /\ ~isPlaying) =>
        \A r \in Rates, e \in {0, 2 * Unit, 4 * Unit} :
            LET s == handleSpeedChange(Cur, r)
                p0 == s.pausedAt
                paused == playThenPause(s, e)
            IN p0 + mulRate(e, r) <= s.audioBuffer.duration
               => /\ paused.pausedAt = p0 + mulRate(e, r)
                  /\ playAudio(paused).sourceNode.offset = p0 + mulRate(e, r)

\* The seek gesture on the slider of variant 1: mousedown, two inputs, then
\* handleSeekEnd once for each of change, mouseup and touchend.
seekGesture(s, t1, t2) ==
    handleSeekEnd(handleSeekEnd(handleSeekEnd(
        handleSeek(handleSeek(handleSeekStart(s), t1), t2))))

\* C25: in variant 1 a seek gesture made while Playing ends Playing with the
\* held source node started at the last target t and getCurrentTime() = t;
\* made while not Playing it ends not Playing with held position t.
C25_SeekGesture ==
    (variant = 1 /\ audioBuffer # NoBuffer) =>
        \A t1, t2 \in SeekTargets :
            LET g == seekGesture(Cur, t1, t2)
            IN IF isPlaying
               THEN /\ g.isPlaying
                    /\ g.sourceNode = [started |-> TRUE, offset |-> t2,
                                       rate |-> playbackRate]
                    /\ g.liveSources = liveSources
                    /\ getCurrentTime(g).time = t2
               ELSE /\ ~g.isPlaying
                    /\ g.pausedAt = t2

\* C26: handleSpeedChange(v) called while not playing changes only the
\* stored playbackRate (isPlaying, pausedAt, startTime, the source node and
\* everything else stay), and the next play starts its node with rate v.
C26_RateChangeWhileNotPlaying ==
    ~isPlaying =>
        \A v \in Rates :
            LET t == handleSpeedChange(Cur, v)
            IN /\ t = [Cur EXCEPT !.playbackRate = v]
               /\ t.sourceNode = NoNode
               /\ audioBuffer # NoBuffer =>
                      playAudio(t).sourceNode =
                          [started |-> TRUE, offset |-> pausedAt, rate |-> v]

\* Paused in the middle of the buffer after the rate was changed to 1.5x.
C26_Witness ==
    /\ ~isPlaying
    /\ audioBuffer.duration = MaxDuration * Unit
    /\ pausedAt = 2 * Unit
    /\ playbackRate = 3
    /\ now = 2 * Unit
    /\ startTime = 0

\* C27: when getCurrentTime() is called while playing where the computed
\* position equals the duration exactly, the call stops the engine and
\* returns the duration.
C27_ReachingTheEndStops ==
    (/\ isPlaying
     /\ pausedAt + mulRate(now - startTime, playbackRate)
           = audioBuffer.duration)
    => LET r == getCurrentTime(Cur)
       IN /\ r.time = audioBuffer.duration
          /\ stoppedAtZero(r.st)

\* The sample indices of column i: [i*step, min((i+1)*step, n)) with
\* step = ceil(n / w).
window(n, w, i) ==
    {k \in 0..(n - 1) :
        i * ceilDiv(n, w) <= k /\ k < (i + 1) * ceilDiv(n, w)}

trueMin(S) == CHOOSE x \in S : \A y \in S : x <= y
trueMax(S) == CHOOSE x \in S : \A y \in S : x >= y

\* C28: for every sample array of length n with values in [-1, 1] and every
\* width w >= 1, once drawWaveform has drawn, the (min, max) of each column
\* whose window [i*step, min((i+1)*step, n)) holds a sample are the true
\* minimum and maximum of the samples in it, and the windows of columns
\* 0..w-1 cover every sample index exactly once.
C28_Envelope ==
    audioBuffer # NoBuffer =>
        LET data == waveform.data
            w == waveform.width
            n == Len(data)
        IN /\ Len(waveform.columns) = w
           /\ \A i \in 0..(w - 1) :
                  LET S == {data[k + 1] : k \in window(n, w, i)}
                  IN S # {} =>
                        /\ waveform.columns[i + 1].min = trueMin(S)
                        /\ waveform.columns[i + 1].max = trueMax(S)
           /\ \A k \in 0..(n - 1) :
                  Cardinality({i \in 0..(w - 1) : k \in window(n, w, i)}) = 1

\* Four samples drawn on two columns of two samples each.
C28_Witness ==
    /\ audioBuffer # NoBuffer
    /\ waveform.data = <<1, 0, 0 - 1, 0 - 1>>
    /\ waveform.width = 2
    /\ waveform.columns = <<[min |-> 0, max |-> 1],
                            [min |-> 0 - 1, max |-> 0 - 1]>>

\* C29: drawWaveform() leaves isPlaying, pausedAt, startTime and the source
\* node as they were, from every reachable state.
C29_DrawKeepsPlaybackState ==
    LET d == drawWaveform(Cur)
    IN /\ d.isPlaying = isPlaying
       /\ d.pausedAt = pausedAt
       /\ d.startTime = startTime
       /\ d.sourceNode = sourceNode

\* C30: every answered request to GET /api/process-youtube has exactly one
\* outcome: 400 JSON when the URL fails validateURL, getInfo then never
\* called; 500 JSON when getInfo or chooseFormat throws; otherwise a streamed
\* body.  While its handler waits for getInfo a request has sent nothing.  On
\* the client a response that is not OK ends in the load failing, and the
\* held buffer is never replaced by that load.
C30_OneOutcome ==
    \A l \in DOMAIN requests :
        LET req == requests[l]
        IN /\ req.stage = "awaiting" =>
                req.valid /\ req.getInfoCalls = 1 /\ req.sends = 0
           /\ req.stage \in {"responded", "closed"} =>
                /\ req.sends = 1
                /\ ~req.valid =>
                       /\ req.status = 400 /\ req.body = "json"
                       /\ req.getInfoCalls = 0
                /\ (req.valid /\ req.failure # "none") =>
                       req.status = 500 /\ req.body = "json"
                /\ (req.valid /\ req.failure = "none") =>
                       req.status = 200 /\ req.body = "stream"
           /\ (req.stage = "responded" /\ ~ok(req)) =>
                \A d \in Durations :
                    youtubeContinuation(Cur, req, [id |-> l, duration |-> d])
                        = failLoad(Cur)
           /\ (req.stage = "closed" /\ ~ok(req)) => audioBuffer.id # l

\* The second load got a 400 answer and failed while the buffer of the first
\* was held.
C30_Witness ==
    /\ Len(requests) = 2
    /\ requests[2].stage = "closed"
    /\ requests[2].status = 400
    /\ requests[1].stage = "closed"
    /\ requests[1].status = 200
    /\ audioBuffer.id = 1

\* C31: when the engine is playing, the device clock keeps advancing, frame
\* ticks keep firing and no user input arrives, the engine is eventually
\* stopped (isPlaying false, no source node) with no progress tick pending.
C31_PlaysOut ==
    isPlaying ~> (~isPlaying /\ sourceNode = NoNode /\ pendingTicks = 0)

\* The longest buffer played from its start at 1.0x has run out and the loop
\* has gone quiet.
C31_Witness ==
    /\ ~isPlaying
    /\ sourceNode = NoNode
    /\ pendingTicks = 0
    /\ audioBuffer.duration = MaxDuration * Unit
    /\ playbackRate = 2
    /\ now > MaxDuration * Unit

\* C32: once the progress loop has gone quiet (no tick pending, not
\* playing), the value the engine last wrote to the seek slider equals
\* getCurrentTime(); variants 1 and 2 have the slider.
C32_SliderAgrees ==
    (variant \in {1, 2} /\ pendingTicks = 0 /\ ~isPlaying) =>
        sliderValue = getCurrentTime(Cur).time

\* C33: in variant 1 a seek gesture that starts while playing and ends
\* without an input event (handleSeekStart, then handleSeekEnd) resumes
\* playback at the position getCurrentTime() returned just before it.
C33_EmptyGestureKeepsPlayhead ==
    (variant = 1 /\ isPlaying /\ getCurrentTime(Cur).st = Cur) =>
        LET before == getCurrentTime(Cur).time
            g == handleSeekEnd(handleSeekStart(Cur))
        IN /\ g.isPlaying
           /\ g.sourceNode.offset = before
           /\ getCurrentTime(g).time = before

\* C34: for every sample array of length n >= 1 and every width w with
\* 1 <= w <= n, each of the w columns drawn has a non-empty sample window
\* and min <= max.
C34_ColumnsNonEmpty ==
    (/\ audioBuffer # NoBuffer
     /\ Len(waveform.data) >= 1
     /\ waveform.width >= 1
     /\ waveform.width <= Len(waveform.data))
    => \A i \in 0..(waveform.width - 1) :
           /\ window(Len(waveform.data), waveform.width, i) # {}
           /\ waveform.columns[i + 1].min <= waveform.columns[i + 1].max

====
